---- MODULE Spec2Model ----
(***************************************************************************)
(* Batch/playlist download orchestration and retry subsystem of the        *)
(* YouTube downloader: BatchModeManager (batchmode.py), RetryHandler       *)
(* (retry_handler.py), DownloadThread (process.py) and the pump of         *)
(* EnhancedController (main.py).                                           *)
(***************************************************************************)
EXTENDS Integers, Sequences, FiniteSets, TLC

\* ------------------------------------------------------------------ bounds
MaxLimit == 3      \* largest value of the queue-limit setting explored
MaxPlaylist == 3   \* largest playlist_count reported by the extractor
MaxMarks == 1      \* outcomes recorded between two counter resets in SpecQ

\* ------------------------------------------------------------- URL values
\* A raw input is a sequence of characters; " " is whitespace.
PlainRaw == { <<>>, <<" ">>, <<"a">>, <<" ", "a", " ">>, <<"b">>, <<"c">> }
PlaylistRaw == { <<"p">> }
RawUrls == PlainRaw \cup PlaylistRaw

\* A text the user can type that is no URL but has the shape of a placeholder
PlaceholderRaw == { <<"PLAYLIST_ITEM_", "1">> }

RECURSIVE LStrip(_)
LStrip(s) == IF s # <<>> /\ Head(s) = " " THEN LStrip(Tail(s)) ELSE s

RECURSIVE RStrip(_)
RStrip(s) == IF s # <<>> /\ s[Len(s)] = " " THEN RStrip(SubSeq(s, 1, Len(s) - 1)) ELSE s

\* str.strip()
Strip(s) == RStrip(LStrip(s))

\* URLs whose shape is a playlist (a list= parameter on a /playlist or /watch path)
is_playlist_url(u) == u = <<"p">>

\* Every URL-like value is a record of one shape:
\*   k = "url"            a plain URL, s its text
\*   k = "PLAYLIST_ITEM_" a queue placeholder, n the number packed after the prefix
\*   k = "entry"          a job URL built from entry ref n, i the index= hint
\*   k = "playlist"       a job URL built from the playlist URL s, i the index= hint
\*   k = "none"           no URL
U(k, s, n, i) == [k |-> k, s |-> s, n |-> n, i |-> i]
Plain(s) == U("url", s, 0, 0)
NoUrl == U("none", <<>>, 0, 0)

\* f"PLAYLIST_ITEM_{i + 1}"
Placeholder(i) == U("PLAYLIST_ITEM_", <<>>, i + 1, 0)

\* int(text) of the one-character texts used here
IntOf(d) == CASE d = "1" -> 1 [] d = "2" -> 2 [] d = "3" -> 3 [] OTHER -> 0

\* queue_item.startswith('PLAYLIST_ITEM_'), with a suffix int() accepts: true of
\* the placeholders and of a queued text of the same shape
IsPlaceholder(item) ==
    \/ item.k = "PLAYLIST_ITEM_"
    \/ item.k = "url" /\ Len(item.s) = 2 /\ item.s[1] = "PLAYLIST_ITEM_"
                      /\ item.s[2] \in {"1", "2", "3"}

\* int(queue_item.split('_')[-1])
ItemIndex(item) == IF item.k = "PLAYLIST_ITEM_" THEN item.n ELSE IntOf(item.s[2])

\* ------------------------------------------------------- BatchModeManager
NoLimit == 0   \* queue_limit=None

NoInfo == [present |-> FALSE, entries |-> <<>>, url |-> <<>>]

\* playlist_data as PlaylistInfoExtractor.run builds it, without the fields only
\* shown to the user: entry refs e0..e(n-1) and the playlist URL
PlaylistInfo(nent, url) ==
    [present |-> TRUE, entries |-> [j \in 1..nent |-> j - 1], url |-> url]

NewManager ==
    [is_batch_mode |-> FALSE, batch_queue |-> <<>>, current_batch_index |-> 0,
     successful_downloads |-> 0, failed_downloads |-> 0,
     current_playlist_info |-> NoInfo, playlist_current_index |-> 0,
     playlist_max_items |-> 0]

Min(a, b) == IF a < b THEN a ELSE b

\* A signal emission: its name and up to two integer arguments
Ev(name, a, b) == [name |-> name, a |-> a, b |-> b]

\* Results of a manager call: the new manager, the return value, the signals
\* emitted, the playlist extractions started
ResEx(m, ret, ev, ex) == [m |-> m, ret |-> ret, ev |-> ev, ex |-> ex]
Res(m, ret, ev) == ResEx(m, ret, ev, <<>>)

RetNone == [k |-> "None", url |-> NoUrl]
RetTrue == [k |-> "True", url |-> NoUrl]
RetFalse == [k |-> "False", url |-> NoUrl]
RetJob(url) == [k |-> "job", url |-> url]
RetRaise == [k |-> "raise", url |-> NoUrl]

enable_batch_mode(m) ==
    [m EXCEPT !.is_batch_mode = TRUE, !.batch_queue = <<>>, !.current_batch_index = 0,
              !.successful_downloads = 0, !.failed_downloads = 0]

disable_batch_mode(m) ==
    [m EXCEPT !.is_batch_mode = FALSE, !.batch_queue = <<>>, !.current_batch_index = 0,
              !.successful_downloads = 0, !.failed_downloads = 0,
              !.current_playlist_info = NoInfo, !.playlist_current_index = 0]

clear_batch_queue(m) ==
    [m EXCEPT !.batch_queue = <<>>, !.current_batch_index = 0,
              !.successful_downloads = 0, !.failed_downloads = 0,
              !.current_playlist_info = NoInfo, !.playlist_current_index = 0]

restart_batch(m) ==
    [m EXCEPT !.current_batch_index = 0, !.successful_downloads = 0,
              !.failed_downloads = 0, !.playlist_current_index = 0]

mark_download_completed(m, success) ==
    IF success THEN [m EXCEPT !.successful_downloads = @ + 1]
    ELSE [m EXCEPT !.failed_downloads = @ + 1]

is_batch_complete(m) == m.current_batch_index >= Len(m.batch_queue)

InQueue(item, q) == \E j \in 1..Len(q) : q[j] = item

\* int(queue_limit * 0.8)
WarnAt(queue_limit) == (queue_limit * 8) \div 10

\* The effective cap handle_playlist_url hands to the extractor (0: none)
eff_cap(m, queue_limit) ==
    LET c1 == IF queue_limit > 0 THEN queue_limit ELSE 0 IN
    IF m.playlist_max_items > 0
    THEN (IF c1 # 0 THEN Min(c1, m.playlist_max_items) ELSE m.playlist_max_items)
    ELSE c1

\* Starts a PlaylistInfoExtractor whose callback carries queue_limit; `active`
\* records whether batch mode was on when it was started, `after_cancel` (set by
\* the controller) whether the playlist prompt had been cancelled before
handle_playlist_url(m, url, queue_limit) ==
    IF ~is_playlist_url(url) THEN Res(m, RetFalse, <<>>)
    ELSE ResEx(m, RetTrue, <<Ev("playlist_loading", 0, 0)>>,
               << [url |-> url, queue_limit |-> queue_limit, cap |-> eff_cap(m, queue_limit),
                   active |-> m.is_batch_mode, after_cancel |-> FALSE] >>)

\* add_to_batch with the new URL put at the head of the list
add_to_batch_prepend(m, url, queue_limit) ==
    LET u == Strip(url) IN
    IF u = <<>> THEN Res(m, RetFalse, <<>>)
    ELSE IF queue_limit # NoLimit /\ Len(m.batch_queue) >= queue_limit
    THEN Res(m, RetFalse, <<Ev("queue_limit_reached", Len(m.batch_queue), 0)>>)
    ELSE IF is_playlist_url(u) THEN handle_playlist_url(m, u, queue_limit)
    ELSE IF InQueue(Plain(u), m.batch_queue) THEN Res(m, RetFalse, <<>>)
    ELSE Res([m EXCEPT !.batch_queue = <<Plain(u)>> \o @], RetTrue, <<Ev("queue_updated", 0, 0)>>)

\* add_to_batch admitting one item more than queue_limit
add_to_batch_over_limit(m, url, queue_limit) ==
    LET u == Strip(url) IN
    IF u = <<>> THEN Res(m, RetFalse, <<>>)
    ELSE IF queue_limit # NoLimit /\ Len(m.batch_queue) > queue_limit
    THEN Res(m, RetFalse, <<Ev("queue_limit_reached", Len(m.batch_queue), 0)>>)
    ELSE IF is_playlist_url(u) THEN handle_playlist_url(m, u, queue_limit)
    ELSE IF InQueue(Plain(u), m.batch_queue) THEN Res(m, RetFalse, <<>>)
    ELSE LET q == Append(m.batch_queue, Plain(u)) IN
         Res([m EXCEPT !.batch_queue = q], RetTrue,
             <<Ev("queue_updated", 0, 0)>> \o
             (IF queue_limit # NoLimit /\ Len(q) >= WarnAt(queue_limit)
              THEN <<Ev("queue_limit_warning", Len(q), queue_limit)>> ELSE <<>>))

\* add_to_batch warning only on the append that reaches the warning size
add_to_batch_warn_once(m, url, queue_limit) ==
    LET u == Strip(url) IN
    IF u = <<>> THEN Res(m, RetFalse, <<>>)
    ELSE IF queue_limit # NoLimit /\ Len(m.batch_queue) >= queue_limit
    THEN Res(m, RetFalse, <<Ev("queue_limit_reached", Len(m.batch_queue), 0)>>)
    ELSE IF is_playlist_url(u) THEN handle_playlist_url(m, u, queue_limit)
    ELSE IF InQueue(Plain(u), m.batch_queue) THEN Res(m, RetFalse, <<>>)
    ELSE LET q == Append(m.batch_queue, Plain(u)) IN
         Res([m EXCEPT !.batch_queue = q], RetTrue,
             <<Ev("queue_updated", 0, 0)>> \o
             (IF /\ queue_limit # NoLimit
                 /\ Len(m.batch_queue) < WarnAt(queue_limit)
                 /\ Len(q) >= WarnAt(queue_limit)
              THEN <<Ev("queue_limit_warning", Len(q), queue_limit)>> ELSE <<>>))

\* add_to_batch without the test for a URL already in the queue
add_to_batch_no_dedup(m, url, queue_limit) ==
    LET u == Strip(url) IN
    IF u = <<>> THEN Res(m, RetFalse, <<>>)
    ELSE IF queue_limit # NoLimit /\ Len(m.batch_queue) >= queue_limit
    THEN Res(m, RetFalse, <<Ev("queue_limit_reached", Len(m.batch_queue), 0)>>)
    ELSE IF is_playlist_url(u) THEN handle_playlist_url(m, u, queue_limit)
    ELSE LET q == Append(m.batch_queue, Plain(u)) IN
         Res([m EXCEPT !.batch_queue = q], RetTrue,
             <<Ev("queue_updated", 0, 0)>> \o
             (IF queue_limit # NoLimit /\ Len(q) >= WarnAt(queue_limit)
              THEN <<Ev("queue_limit_warning", Len(q), queue_limit)>> ELSE <<>>))

add_to_batch(m, url, queue_limit) ==
    LET u == Strip(url) IN
    IF u = <<>> THEN Res(m, RetFalse, <<>>)
    ELSE IF queue_limit # NoLimit /\ Len(m.batch_queue) >= queue_limit
    THEN Res(m, RetFalse, <<Ev("queue_limit_reached", Len(m.batch_queue), 0)>>)
    ELSE IF is_playlist_url(u) THEN handle_playlist_url(m, u, queue_limit)
    ELSE IF InQueue(Plain(u), m.batch_queue) THEN Res(m, RetFalse, <<>>)
    ELSE LET q == Append(m.batch_queue, Plain(u)) IN
         Res([m EXCEPT !.batch_queue = q], RetTrue,
             <<Ev("queue_updated", 0, 0)>> \o
             (IF queue_limit # NoLimit /\ Len(q) >= WarnAt(queue_limit)
              THEN <<Ev("queue_limit_warning", Len(q), queue_limit)>> ELSE <<>>))

\* The number of placeholders on_playlist_info_extracted enqueues
max_items(m, video_count, queue_limit) ==
    LET t0 == video_count
        t1 == IF queue_limit > 0 THEN Min(t0, queue_limit) ELSE t0
    IN IF m.playlist_max_items > 0 THEN Min(t1, m.playlist_max_items) ELSE t1

\* Lines 176-177: what on_playlist_info_extracted writes before it emits
\* playlist_detected
playlist_info_stored(m, info) ==
    [m EXCEPT !.current_playlist_info = info, !.playlist_current_index = 0]

\* Lines 181-200: what it writes after the slots of playlist_detected returned
playlist_queue_filled(m, video_count, queue_limit) ==
    LET m2 == IF ~m.is_batch_mode THEN enable_batch_mode(m) ELSE m
        k == max_items(m2, video_count, queue_limit)
    IN [m2 EXCEPT !.batch_queue = [j \in 1..k |-> Placeholder(j - 1)]]

\* With no slot connected to the signals
on_playlist_info_extracted(m, info, video_count, queue_limit) ==
    LET m1 == playlist_info_stored(m, info)
        m3 == playlist_queue_filled(m1, video_count, queue_limit)
        q == m3.batch_queue
    IN Res(m3, RetNone,
           <<Ev("playlist_detected", 0, 0)>> \o
           (IF ~m1.is_batch_mode THEN <<Ev("batch_status_changed", 1, 0)>> ELSE <<>>) \o
           <<Ev("playlist_loading", 0, 0), Ev("queue_updated", 0, 0)>> \o
           (IF queue_limit # NoLimit /\ Len(q) >= queue_limit
            THEN <<Ev("queue_limit_reached", Len(q), 0)>> ELSE <<>>))

\* on_playlist_extraction_failed emptying the queue as well
on_playlist_extraction_failed_clearing(m) ==
    Res(clear_batch_queue(m), RetNone, <<Ev("playlist_loading", 0, 0)>>)

on_playlist_extraction_failed(m) == Res(m, RetNone, <<Ev("playlist_loading", 0, 0)>>)

get_playlist_video_url(m, index) ==
    LET info == m.current_playlist_info IN
    IF ~info.present THEN NoUrl
    ELSE IF 0 <= index /\ index < Len(info.entries)
         THEN U("entry", <<>>, info.entries[index + 1], index + 1)
         ELSE IF info.url # <<>> THEN U("playlist", info.url, 0, index + 1)
              ELSE NoUrl

\* _build_batch_item_data: the job URL (NoUrl for None) and the manager
build_batch_item_data(m, queue_item, is_playlist_item, item_index) ==
    IF is_playlist_item
    THEN LET actual_url == get_playlist_video_url(m, item_index) IN
         IF actual_url = NoUrl THEN Res(m, RetNone, <<>>)
         ELSE Res([m EXCEPT !.playlist_current_index = item_index + 1],
                  RetJob(actual_url), <<>>)
    ELSE Res(m, RetJob(queue_item), <<>>)

get_next_batch_item(m) ==
    IF ~m.is_batch_mode \/ m.current_batch_index >= Len(m.batch_queue)
    THEN Res(m, RetNone, <<>>)
    ELSE LET queue_item == m.batch_queue[m.current_batch_index + 1]
             m1 == [m EXCEPT !.current_batch_index = @ + 1]
             is_playlist_item == IsPlaceholder(queue_item)
             item_index == IF is_playlist_item THEN ItemIndex(queue_item) ELSE 0
             r == build_batch_item_data(m1, queue_item, is_playlist_item, item_index)
         IN \* item_data.get(...) on line 422 raises when item_data is None
            IF r.ret = RetNone THEN Res(r.m, RetRaise, <<>>) ELSE r

trim_queue_to_limit(m, limit) ==
    IF limit < 0 THEN m
    ELSE LET m1 == [m EXCEPT !.playlist_max_items = limit] IN
         IF Len(m1.batch_queue) > limit
         THEN LET q == SubSeq(m1.batch_queue, 1, limit) IN
              [m1 EXCEPT !.batch_queue = q,
                         !.current_batch_index = IF @ > Len(q) THEN Len(q) ELSE @,
                         !.playlist_current_index = IF @ > Len(q) THEN Len(q) ELSE @]
         ELSE m1

enforce_playlist_limit(m, limit) ==
    IF limit > 0 THEN trim_queue_to_limit([m EXCEPT !.playlist_max_items = limit], limit)
    ELSE m

\* list.pop(index) / del list[index], index 0-based
DelAt(q, index) == SubSeq(q, 1, index) \o SubSeq(q, index + 2, Len(q))

\* list.insert(index, item), index 0-based and within the list
InsAt(q, index, item) == SubSeq(q, 1, index) \o <<item>> \o SubSeq(q, index + 1, Len(q))

\* remove_from_queue leaving current_batch_index where it was
remove_from_queue_cursor_kept(m, index) ==
    IF 0 <= index /\ index < Len(m.batch_queue)
    THEN Res([m EXCEPT !.batch_queue = DelAt(@, index)],
             RetNone, <<Ev("queue_updated", 0, 0)>>)
    ELSE Res(m, RetNone, <<>>)

remove_from_queue(m, index) ==
    IF 0 <= index /\ index < Len(m.batch_queue)
    THEN Res([m EXCEPT !.batch_queue = DelAt(@, index),
                       !.current_batch_index = IF index < @ THEN @ - 1 ELSE @],
             RetNone, <<Ev("queue_updated", 0, 0)>>)
    ELSE Res(m, RetNone, <<>>)

\* move_in_queue leaving current_batch_index where it was
move_in_queue_cursor_kept(m, from_index, to_index) ==
    IF ~(0 <= from_index /\ from_index < Len(m.batch_queue)) THEN Res(m, RetFalse, <<>>)
    ELSE IF ~(0 <= to_index /\ to_index < Len(m.batch_queue)) THEN Res(m, RetFalse, <<>>)
    ELSE IF from_index = to_index THEN Res(m, RetTrue, <<>>)
    ELSE LET item == m.batch_queue[from_index + 1]
             q == InsAt(DelAt(m.batch_queue, from_index), to_index, item)
         IN Res([m EXCEPT !.batch_queue = q], RetTrue, <<Ev("queue_updated", 0, 0)>>)

move_in_queue(m, from_index, to_index) ==
    IF ~(0 <= from_index /\ from_index < Len(m.batch_queue)) THEN Res(m, RetFalse, <<>>)
    ELSE IF ~(0 <= to_index /\ to_index < Len(m.batch_queue)) THEN Res(m, RetFalse, <<>>)
    ELSE IF from_index = to_index THEN Res(m, RetTrue, <<>>)
    ELSE LET item == m.batch_queue[from_index + 1]
             q == InsAt(DelAt(m.batch_queue, from_index), to_index, item)
             c == m.current_batch_index
             c1 == IF c = from_index THEN to_index
                   ELSE IF from_index < c /\ c <= to_index THEN c - 1
                   ELSE IF to_index <= c /\ c < from_index THEN c + 1
                   ELSE c
         IN Res([m EXCEPT !.batch_queue = q, !.current_batch_index = c1],
                RetTrue, <<Ev("queue_updated", 0, 0)>>)

\* ------------------------------------------------------------ RetryHandler
\* An error text is a sequence of words; a pattern matches where its words occur
\* in a row in the lower-cased text.
LowerWord(w) ==
    CASE w = "Private" -> "private"
      [] w = "Video" -> "video"
      [] w = "Connection" -> "connection"
      [] w = "Sign" -> "sign"
      [] w = "Download" -> "download"
      [] w = "Retry" -> "retry"
      [] w = "HTTP" -> "http"
      [] w = "Error" -> "error"
      [] OTHER -> w

\* str(exception).lower()
Lower(e) == [j \in 1..Len(e) |-> LowerWord(e[j])]

\* pattern in error_msg
Contains(text, pattern) ==
    \E j \in 0..(Len(text) - Len(pattern)) :
        \A k \in 1..Len(pattern) : text[j + k] = pattern[k]

retryable_patterns ==
    << <<"connection">>, <<"timeout">>, <<"network">>, <<"unreachable">>,
       <<"temporary", "failure">>, <<"service", "unavailable">>, <<"bad", "gateway">>,
       <<"gateway", "timeout">>, <<"connection", "reset">>, <<"connection", "refused">>,
       <<"dns">>, <<"resolve">>, <<"interrupted">>, <<"broken", "pipe">>,
       <<"http", "error", "5">>, <<"http", "error", "429">>,
       <<"unable", "to", "download">>, <<"download", "error">> >>

non_retryable_patterns ==
    << <<"video", "unavailable">>, <<"private", "video">>, <<"video", "removed">>,
       <<"copyright">>, <<"blocked">>, <<"not", "found">>, <<"invalid", "url">>,
       <<"unsupported", "url">>, <<"age", "restricted">>, <<"login", "required">>,
       <<"cancelled", "by", "user">>,
       <<"sign", "in", "to", "confirm", "you're", "not", "a", "bot">> >>

MatchesAny(text, patterns) == \E j \in 1..Len(patterns) : Contains(text, patterns[j])

\* _is_retryable_error with the two lists consulted in the other order
is_retryable_error_retryable_first(exception) ==
    LET error_msg == Lower(exception) IN
    IF MatchesAny(error_msg, retryable_patterns) THEN TRUE
    ELSE IF MatchesAny(error_msg, non_retryable_patterns) THEN FALSE
    ELSE TRUE

is_retryable_error(exception) ==
    LET error_msg == Lower(exception) IN
    IF MatchesAny(error_msg, non_retryable_patterns) THEN FALSE
    ELSE IF MatchesAny(error_msg, retryable_patterns) THEN TRUE
    ELSE TRUE

\* Error texts
ErrRetryCancelled == <<"Retry", "cancelled", "by", "user">>
ErrDownloadCancelled == <<"Download", "cancelled", "by", "user">>
ErrPrivate == <<"Private", "video">>
ErrTimeout == <<"Connection", "timeout">>
ErrUnknown == <<"unexpected", "failure">>
ErrMixed == <<"Video", "unavailable", "connection", "reset">>
ErrBot == <<"Sign", "in", "to", "confirm", "you're", "not", "a", "bot">>
NoErr == <<>>

\* What one call of the job function can end with: NoErr is a normal return,
\* ErrDownloadCancelled is what _download_with_ytdl raises once cancelled
JobErrors == {ErrPrivate, ErrTimeout, ErrUnknown, ErrMixed, ErrBot, ErrDownloadCancelled}
JobResults == {NoErr} \cup JobErrors

\* A retry signal
REv(name, a, m, err) == [name |-> name, a |-> a, m |-> m, err |-> err]

\* RetryHandler(max_retries, retry_delays) at the start of execute_with_retry.
\* pc: "top" the head of the for loop, "sleep" in time.sleep(delay), "call"
\* about to call func, "infunc" inside func, "done" returned or raised.
\* calls, results, slept, events, early_cancel and sleep_cancel (cancel() came
\* during the sleep) record what happened.
RetryHandler(max_retries, retry_delays) ==
    [max_retries |-> max_retries,
     retry_delays |-> IF retry_delays = <<>> THEN <<30, 60, 180>> ELSE retry_delays,
     is_cancelled |-> FALSE, attempt |-> 0, pc |-> "top", last_exception |-> NoErr,
     outcome |-> "running", error |-> NoErr,
     calls |-> 0, results |-> <<>>, slept |-> <<>>, events |-> <<>>,
     early_cancel |-> FALSE, sleep_cancel |-> FALSE]

Raise(h, e) == [h EXCEPT !.pc = "done", !.outcome = "raised", !.error = e]

\* The delay taken round-robin from the schedule instead of clamped to its last entry
DelayFor_wrapped(h, attempt) == h.retry_delays[((attempt - 1) % Len(h.retry_delays)) + 1]

\* retry_delays[min(attempt - 1, len(retry_delays) - 1)]
DelayFor(h, attempt) == h.retry_delays[Min(attempt - 1, Len(h.retry_delays) - 1) + 1]

\* The loop head without the cancellation check
rh_top_unchecked(h) ==
    IF h.attempt > 0
    THEN [h EXCEPT !.pc = "sleep",
                   !.events = Append(@, REv("retry_attempt", h.attempt, h.max_retries,
                                            h.last_exception))]
    ELSE [h EXCEPT !.pc = "call"]

\* Lines 39-47: the cancellation check, then for a retry the retry_attempt signal
rh_top(h) ==
    IF h.is_cancelled THEN Raise(h, ErrRetryCancelled)
    ELSE IF h.attempt > 0
    THEN [h EXCEPT !.pc = "sleep",
                   !.events = Append(@, REv("retry_attempt", h.attempt, h.max_retries,
                                            h.last_exception))]
    ELSE [h EXCEPT !.pc = "call"]

\* Line 50: time.sleep(delay) returns
rh_wake(h) == [h EXCEPT !.pc = "call", !.slept = Append(@, DelayFor(h, h.attempt))]

\* Line 52: func is called
rh_call(h) == [h EXCEPT !.pc = "infunc", !.calls = @ + 1]

\* Lines 52-68 with the budget test comparing against max_retries - 1
rh_return_short_budget(h, result) ==
    LET h1 == [h EXCEPT !.results = Append(@, result)] IN
    IF result = NoErr
    THEN [h1 EXCEPT !.pc = "done", !.outcome = "returned",
                    !.events = IF h.attempt > 0
                               THEN Append(@, REv("retry_success", h.attempt, h.max_retries, NoErr))
                               ELSE @]
    ELSE LET h2 == [h1 EXCEPT !.last_exception = result] IN
         IF ~is_retryable_error(result) THEN Raise(h2, result)
         ELSE IF h.attempt >= h.max_retries - 1
         THEN Raise([h2 EXCEPT !.events = Append(@, REv("retry_failed", h.attempt,
                                                         h.max_retries, result))], result)
         ELSE [h2 EXCEPT !.attempt = @ + 1, !.pc = "top"]

\* Lines 52-68 without the test for a non-retryable error
rh_return_retry_all(h, result) ==
    LET h1 == [h EXCEPT !.results = Append(@, result)] IN
    IF result = NoErr
    THEN [h1 EXCEPT !.pc = "done", !.outcome = "returned",
                    !.events = IF h.attempt > 0
                               THEN Append(@, REv("retry_success", h.attempt, h.max_retries, NoErr))
                               ELSE @]
    ELSE LET h2 == [h1 EXCEPT !.last_exception = result] IN
         IF h.attempt = h.max_retries
         THEN Raise([h2 EXCEPT !.events = Append(@, REv("retry_failed", h.attempt,
                                                         h.max_retries, result))], result)
         ELSE [h2 EXCEPT !.attempt = @ + 1, !.pc = "top"]

\* Lines 52-68 with retry_failed emitted for a non-retryable error as well
rh_return_fatal_announced(h, result) ==
    LET h1 == [h EXCEPT !.results = Append(@, result)] IN
    IF result = NoErr
    THEN [h1 EXCEPT !.pc = "done", !.outcome = "returned",
                    !.events = IF h.attempt > 0
                               THEN Append(@, REv("retry_success", h.attempt, h.max_retries, NoErr))
                               ELSE @]
    ELSE LET h2 == [h1 EXCEPT !.last_exception = result] IN
         IF ~is_retryable_error(result) \/ h.attempt = h.max_retries
         THEN Raise([h2 EXCEPT !.events = Append(@, REv("retry_failed", h.attempt,
                                                         h.max_retries, result))], result)
         ELSE [h2 EXCEPT !.attempt = @ + 1, !.pc = "top"]

\* Lines 52-68: func returns or raises `result`
rh_return(h, result) ==
    LET h1 == [h EXCEPT !.results = Append(@, result)] IN
    IF result = NoErr
    THEN [h1 EXCEPT !.pc = "done", !.outcome = "returned",
                    !.events = IF h.attempt > 0
                               THEN Append(@, REv("retry_success", h.attempt, h.max_retries, NoErr))
                               ELSE @]
    ELSE LET h2 == [h1 EXCEPT !.last_exception = result] IN
         IF ~is_retryable_error(result) THEN Raise(h2, result)
         ELSE IF h.attempt = h.max_retries
         THEN Raise([h2 EXCEPT !.events = Append(@, REv("retry_failed", h.attempt,
                                                         h.max_retries, result))], result)
         ELSE [h2 EXCEPT !.attempt = @ + 1, !.pc = "top"]

\* RetryHandler.cancel()
rh_cancel(h) ==
    [h EXCEPT !.is_cancelled = TRUE,
              !.early_cancel = @ \/ (h.pc = "top" /\ h.attempt = 0),
              !.sleep_cancel = @ \/ h.pc = "sleep"]

\* ------------------------------------------------------------------ state
VARIABLES
    bm,           \* the BatchModeManager
    queue_limit,  \* settings.get_max_concurrent_downloads()
    extractions,  \* PlaylistInfoExtractor threads started and not yet called back
    op,           \* the operation that produced this state
    ret,          \* what it returned
    events,       \* the signals it emitted, in order
    pure,         \* only add_to_batch and get_next_batch_item since enable_batch_mode
    enq,          \* while pure: the URLs add_to_batch accepted, in call order
    deq,          \* while pure: the job URLs get_next_batch_item returned, in call order
    fresh,        \* only get_next_batch_item since the last playlist callback
    ncalls,       \* while fresh: get_next_batch_item calls since that callback
                  \* (not counted beyond MaxPlaylist + 1)
    arg,          \* the arguments the operation was called with
    after_remove  \* the operation before it was a remove_from_queue that removed an item

VARIABLES
    rh            \* a RetryHandler running execute_with_retry

qvars == <<bm, queue_limit, extractions, op, ret, events, pure, enq, deq, fresh, ncalls,
          arg, after_remove>>

VARIABLES
    is_downloading,            \* main.py: self.is_downloading
    block_batch_after_cancel,  \* main.py: self._block_batch_after_cancel, set only when
                               \* the playlist dialog is cancelled
    download_button,           \* whether the Download button is enabled
    batch_checkbox,            \* main.py: self.batch_checkbox.isChecked()
    threads,                   \* every DownloadThread created; self.thread is the last
    posted,                    \* signals of the threads queued to the main thread
    timers,                    \* pending QTimer.singleShot(..., start_batch_download)
    summaries,                 \* batch summaries logged since the user last added a
                               \* URL, cleared the queue or switched the batch mode
                               \* (not counted beyond MaxSummaries)
    dispatched                 \* a download was started since then

cvars == <<is_downloading, block_batch_after_cancel, download_button, batch_checkbox,
           threads, posted, timers, summaries, dispatched>>

vars == <<qvars, rh, cvars>>

\* EnhancedController.__init__: nothing downloading, no thread, nothing queued
CtlInit ==
    /\ is_downloading = FALSE
    /\ block_batch_after_cancel = FALSE
    /\ download_button = TRUE
    /\ batch_checkbox = FALSE
    /\ threads = <<>>
    /\ posted = <<>>
    /\ timers = 0
    /\ summaries = 0
    /\ dispatched = FALSE

\* The arguments of a call: the URL text and up to two numbers
Args(url, a, b) == [url |-> url, a |-> a, b |-> b]
NoArg == Args(<<>>, 0, 0)
Called(a) == arg' = a /\ after_remove' = (op = "remove_from_queue" /\ events # <<>>)

\* ------------------------------------------- the queue manager on its own
MaxExtractions == 1   \* playlist resolutions in flight at once

QInit ==
    /\ bm = NewManager
    /\ queue_limit \in 1..MaxLimit
    /\ extractions = <<>>
    /\ op = "init" /\ ret = RetNone /\ events = <<>>
    /\ pure = FALSE /\ enq = <<>> /\ deq = <<>>
    /\ fresh = FALSE /\ ncalls = 0
    /\ arg = NoArg /\ after_remove = FALSE
    /\ rh = RetryHandler(3, <<>>)
    /\ CtlInit

\* An operation that is neither an enqueue nor a dequeue ends both histories
Impure == pure' = FALSE /\ enq' = <<>> /\ deq' = <<>> /\ fresh' = FALSE /\ ncalls' = 0

QEnable ==
    /\ bm' = enable_batch_mode(bm)
    /\ op' = "enable_batch_mode" /\ ret' = RetNone
    /\ events' = <<Ev("batch_status_changed", 1, 0)>>
    /\ pure' = TRUE /\ enq' = <<>> /\ deq' = <<>> /\ fresh' = FALSE /\ ncalls' = 0
    /\ Called(NoArg)
    /\ UNCHANGED <<queue_limit, extractions, rh, cvars>>

QDisable ==
    /\ bm' = disable_batch_mode(bm)
    /\ op' = "disable_batch_mode" /\ ret' = RetNone
    /\ events' = <<Ev("batch_status_changed", 0, 0)>>
    /\ Impure
    /\ Called(NoArg)
    /\ UNCHANGED <<queue_limit, extractions, rh, cvars>>

QAdd(url) ==
    LET r == add_to_batch(bm, url, queue_limit) IN
    /\ Len(extractions) + Len(r.ex) <= MaxExtractions
    /\ bm' = r.m /\ ret' = r.ret /\ events' = r.ev
    /\ extractions' = extractions \o r.ex
    /\ op' = "add_to_batch"
    /\ enq' = IF pure /\ r.ret = RetTrue /\ r.ex = <<>> THEN Append(enq, Plain(Strip(url))) ELSE enq
    /\ fresh' = FALSE /\ ncalls' = 0
    /\ Called(Args(url, queue_limit, 0))
    /\ UNCHANGED <<queue_limit, pure, deq, rh, cvars>>

\* start_download hands a playlist URL straight to handle_playlist_url
QHandlePlaylist(url) ==
    LET r == handle_playlist_url(bm, Strip(url), queue_limit) IN
    /\ Len(extractions) + Len(r.ex) <= MaxExtractions
    /\ bm' = r.m /\ ret' = r.ret /\ events' = r.ev
    /\ extractions' = extractions \o r.ex
    /\ op' = "handle_playlist_url"
    /\ Called(Args(url, queue_limit, 0))
    /\ UNCHANGED <<queue_limit, pure, enq, deq, fresh, ncalls, rh, cvars>>

\* What the extractor can report under its playlistend cap: playlist_count and
\* the number of entries read
Reports(cap) ==
    { p \in (0..MaxPlaylist) \X (0..MaxPlaylist) :
        p[2] = IF cap > 0 THEN Min(p[1], cap) ELSE p[1] }

QPlaylistExtracted(j, video_count, nent) ==
    LET e == extractions[j]
        r == on_playlist_info_extracted(bm, PlaylistInfo(nent, e.url), video_count, e.queue_limit)
    IN
    /\ bm' = r.m /\ ret' = r.ret /\ events' = r.ev
    /\ extractions' = DelAt(extractions, j - 1)
    /\ op' = "on_playlist_info_extracted"
    /\ pure' = FALSE /\ enq' = <<>> /\ deq' = <<>>
    /\ fresh' = TRUE /\ ncalls' = 0
    /\ Called(Args(extractions[j].url, video_count, nent))
    /\ UNCHANGED <<queue_limit, rh, cvars>>

QPlaylistFailed(j) ==
    LET r == on_playlist_extraction_failed(bm) IN
    /\ bm' = r.m /\ ret' = r.ret /\ events' = r.ev
    /\ extractions' = DelAt(extractions, j - 1)
    /\ op' = "on_playlist_extraction_failed"
    /\ Called(NoArg)
    /\ UNCHANGED <<queue_limit, pure, enq, deq, fresh, ncalls, rh, cvars>>

QGetNext ==
    LET r == get_next_batch_item(bm) IN
    /\ bm' = r.m /\ ret' = r.ret /\ events' = r.ev
    /\ op' = "get_next_batch_item"
    /\ deq' = IF pure /\ r.ret.k = "job" THEN Append(deq, r.ret.url) ELSE deq
    /\ ncalls' = IF fresh THEN Min(ncalls + 1, MaxPlaylist + 1) ELSE 0
    /\ Called(NoArg)
    /\ UNCHANGED <<queue_limit, extractions, pure, enq, fresh, rh, cvars>>

QRemove(index) ==
    LET r == remove_from_queue(bm, index) IN
    /\ bm' = r.m /\ ret' = r.ret /\ events' = r.ev
    /\ op' = "remove_from_queue"
    /\ Impure
    /\ Called(Args(<<>>, index, 0))
    /\ UNCHANGED <<queue_limit, extractions, rh, cvars>>

QMove(from_index, to_index) ==
    LET r == move_in_queue(bm, from_index, to_index) IN
    /\ bm' = r.m /\ ret' = r.ret /\ events' = r.ev
    /\ op' = "move_in_queue"
    /\ Impure
    /\ Called(Args(<<>>, from_index, to_index))
    /\ UNCHANGED <<queue_limit, extractions, rh, cvars>>

QTrim(limit) ==
    /\ bm' = trim_queue_to_limit(bm, limit)
    /\ op' = "trim_queue_to_limit" /\ ret' = RetNone
    /\ events' = IF Len(bm.batch_queue) > limit /\ limit >= 0
                 THEN <<Ev("queue_updated", 0, 0)>> ELSE <<>>
    /\ Impure
    /\ Called(Args(<<>>, limit, 0))
    /\ UNCHANGED <<queue_limit, extractions, rh, cvars>>

QEnforce(limit) ==
    /\ bm' = enforce_playlist_limit(bm, limit)
    /\ op' = "enforce_playlist_limit" /\ ret' = RetNone
    /\ events' = IF Len(bm.batch_queue) > limit /\ limit > 0
                 THEN <<Ev("queue_updated", 0, 0)>> ELSE <<>>
    /\ Impure
    /\ Called(Args(<<>>, limit, 0))
    /\ UNCHANGED <<queue_limit, extractions, rh, cvars>>

QClear ==
    /\ bm' = clear_batch_queue(bm)
    /\ op' = "clear_batch_queue" /\ ret' = RetNone
    /\ events' = <<Ev("queue_updated", 0, 0)>>
    /\ Impure
    /\ Called(NoArg)
    /\ UNCHANGED <<queue_limit, extractions, rh, cvars>>

QRestart ==
    /\ bm' = restart_batch(bm)
    /\ op' = "restart_batch" /\ ret' = RetNone /\ events' = <<>>
    /\ Impure
    /\ Called(NoArg)
    /\ UNCHANGED <<queue_limit, extractions, rh, cvars>>

QMark(success) ==
    /\ bm.successful_downloads + bm.failed_downloads < MaxMarks
    /\ bm' = mark_download_completed(bm, success)
    /\ op' = "mark_download_completed" /\ ret' = RetNone /\ events' = <<>>
    /\ Called(Args(<<>>, IF success THEN 1 ELSE 0, 0))
    /\ UNCHANGED <<queue_limit, extractions, pure, enq, deq, fresh, ncalls, rh, cvars>>

\* Queue editing: plain URLs only
QNext ==
    \/ QEnable
    \/ QDisable
    \/ \E url \in PlainRaw : QAdd(url)
    \/ QGetNext
    \/ \E index \in -1..MaxLimit : QRemove(index)
    \/ \E from_index, to_index \in -1..MaxLimit : QMove(from_index, to_index)
    \/ QClear
    \/ QRestart
    \/ \E success \in BOOLEAN : QMark(success)

SpecQ == QInit /\ [][QNext]_vars

\* Playlists: resolution, lazy materialization, caps
PNext ==
    \/ QEnable
    \/ QDisable
    \/ \E url \in {<<"a">>} \cup PlaylistRaw \cup PlaceholderRaw : QAdd(url)
    \/ \E url \in RawUrls : QHandlePlaylist(url)
    \/ \E j \in 1..Len(extractions) :
         \E p \in Reports(extractions[j].cap) : QPlaylistExtracted(j, p[1], p[2])
    \/ \E j \in 1..Len(extractions) : QPlaylistFailed(j)
    \/ QGetNext
    \/ \E limit \in -1..MaxLimit : QTrim(limit)
    \/ \E limit \in 0..MaxLimit : QEnforce(limit)
    \/ QClear

SpecP == QInit /\ [][PNext]_vars

\* ------------------------------------------- editing a queue that is given
MaxItems == 4   \* longest queue edited

EditUrls == { <<"a">>, <<"b">>, <<"c">>, <<"d">> }

\* The queues add_to_batch can have built from plain URLs: no URL twice
EditQueues ==
    UNION { { q \in [1..n -> {Plain(u) : u \in EditUrls}] :
                \A i, j \in 1..n : q[i] = q[j] => i = j } : n \in 0..MaxItems }

\* A batch of plain URLs of which get_next_batch_item has handed out any number;
\* the limit setting may have been lowered since the URLs were added
EInit ==
    /\ \E q \in EditQueues : \E c \in 0..Len(q) :
         bm = [enable_batch_mode(NewManager) EXCEPT !.batch_queue = q,
                                                    !.current_batch_index = c]
    /\ queue_limit \in 1..MaxItems
    /\ extractions = <<>>
    /\ op = "init" /\ ret = RetNone /\ events = <<>>
    /\ pure = FALSE /\ enq = <<>> /\ deq = <<>>
    /\ fresh = FALSE /\ ncalls = 0
    /\ arg = NoArg /\ after_remove = FALSE
    /\ rh = RetryHandler(3, <<>>)
    /\ CtlInit

ENext ==
    \/ \E index \in -1..MaxItems : QRemove(index)
    \/ \E from_index, to_index \in -1..MaxItems : QMove(from_index, to_index)

SpecEdit == EInit /\ [][ENext]_vars

\* ------------------------------------------- filling a queue up to its limit
MaxWarnLimit == 5   \* largest queue_limit filled

WarnUrls == EditUrls \cup { <<"e">> }

WInit ==
    /\ bm = enable_batch_mode(NewManager)
    /\ queue_limit \in 1..MaxWarnLimit
    /\ extractions = <<>>
    /\ op = "init" /\ ret = RetNone /\ events = <<>>
    /\ pure = FALSE /\ enq = <<>> /\ deq = <<>>
    /\ fresh = FALSE /\ ncalls = 0
    /\ arg = NoArg /\ after_remove = FALSE
    /\ rh = RetryHandler(3, <<>>)
    /\ CtlInit

WNext ==
    \/ \E url \in WarnUrls : QAdd(url)
    \/ \E index \in 0..MaxWarnLimit : QRemove(index)

SpecWarn == WInit /\ [][WNext]_vars

\* ------------------------------------------- execute_with_retry on its own
MaxRetries == 5   \* largest max_retries explored

RInit ==
    /\ bm = NewManager /\ queue_limit = 3 /\ extractions = <<>>
    /\ op = "init" /\ ret = RetNone /\ events = <<>>
    /\ pure = FALSE /\ enq = <<>> /\ deq = <<>> /\ fresh = FALSE /\ ncalls = 0
    /\ arg = NoArg /\ after_remove = FALSE
    /\ CtlInit
    /\ \E max_retries \in 0..MaxRetries :
         \E retry_delays \in {<<>>, <<30, 60>>} :
           rh = RetryHandler(max_retries, retry_delays)

RTop == rh.pc = "top" /\ rh' = rh_top(rh) /\ UNCHANGED <<qvars, cvars>>

RWake == rh.pc = "sleep" /\ rh' = rh_wake(rh) /\ UNCHANGED <<qvars, cvars>>

RCall == rh.pc = "call" /\ rh' = rh_call(rh) /\ UNCHANGED <<qvars, cvars>>

RReturn(result) ==
    /\ rh.pc = "infunc"
    /\ result = ErrDownloadCancelled => rh.is_cancelled
    /\ rh' = rh_return(rh, result)
    /\ UNCHANGED <<qvars, cvars>>

RCancel == ~rh.is_cancelled /\ rh.pc # "done" /\ rh' = rh_cancel(rh) /\ UNCHANGED <<qvars, cvars>>

RNext ==
    \/ RTop
    \/ RWake
    \/ RCall
    \/ \E result \in JobResults : RReturn(result)
    \/ RCancel

SpecRetry == RInit /\ [][RNext]_vars

\* ------------------------------------------------ the controller (main.py)
\* EnhancedController with its BatchModeManager and DownloadThreads. The main
\* thread runs one handler at a time; a signal of a DownloadThread is queued to it
\* and handled later, in posting order. The texts are plain video URLs: playlist
\* resolution is the subject of SpecP. A modal dialog opened by a handler is taken
\* to be answered before the main thread handles anything else.
MaxThreads == 2     \* DownloadThreads created in one run
DefaultQueueLimit == 3   \* get_max_concurrent_downloads() with nothing saved
MaxSummaries == 2   \* batch summaries counted
MaxTransient == 1   \* retryable failures of one download

\* What link_input holds when a handler reads it (the user may edit it between
\* any two events), and what autopaste detects
LinkTexts == {<<>>, <<"a">>, <<"b">>}

\* What one call of _download_with_ytdl ends with when it is not cancelled
DownloadResults == {NoErr, ErrTimeout, ErrPrivate, ErrBot}

\* handle_authentication_error: cookies are disabled in the settings, the cookie
\* dialog returns a cookie file, or it is dismissed
AuthOutcomes == {"disabled", "cookie", "declined"}

\* DownloadThread.__init__. pc: "scheduled" QTimer.singleShot(pre_delay,
\* thread.start) is pending, "run" in execute_with_retry, "except" in the except
\* block of run, "finally" in its finally block, "ended" finished was emitted.
\* outcome is the branch the finally block took; rec_s and rec_f count the
\* mark_download_completed(True) and (False) calls made for this thread's signals.
\* cancel_req: the Cancel button was pressed while the thread was self.thread and
\* had not ended. The URL of the thread has no part in what the controller does
\* with it.
DownloadThread ==
    [pc |-> "scheduled", is_cancelled |-> FALSE,
     retry_handler |-> RetryHandler(3, <<30, 60, 180>>),
     download_success |-> FALSE, outcome |-> "none", rec_s |-> 0, rec_f |-> 0,
     cleaned |-> FALSE, cancel_req |-> FALSE, sigs |-> <<>>]

\* QThread.isRunning(): started and run() has not returned
isRunning(t) == t.pc \in {"run", "except", "finally"}

\* A queued signal of thread w
Signal(sig, w, msg) == [sig |-> sig, w |-> w, msg |-> msg]

\* error_msg = f"Download failed: {str(e)}"
FailMsg(e) == <<"Download", "failed:">> \o e

\* The state the handlers of the main thread work on
App ==
    [bm |-> bm, is_downloading |-> is_downloading, block |-> block_batch_after_cancel,
     download_button |-> download_button, checkbox |-> batch_checkbox,
     threads |-> threads, posted |-> posted,
     timers |-> timers, summaries |-> summaries, dispatched |-> dispatched]

hvars == <<queue_limit, extractions, op, ret, events, pure, enq, deq, fresh, ncalls,
          arg, after_remove, rh>>

\* A handler leaves the state s (no more than MaxThreads threads are created)
CommitCtl(s) ==
    /\ Len(s.threads) <= MaxThreads
    /\ bm' = s.bm
    /\ is_downloading' = s.is_downloading
    /\ block_batch_after_cancel' = s.block
    /\ download_button' = s.download_button
    /\ batch_checkbox' = s.checkbox
    /\ threads' = s.threads
    /\ posted' = s.posted
    /\ timers' = s.timers
    /\ summaries' = s.summaries
    /\ dispatched' = s.dispatched

\* A handler that starts and ends no playlist resolution
Commit(s) == CommitCtl(s) /\ UNCHANGED hvars

reset_ui(s) == [s EXCEPT !.download_button = TRUE]

\* Logs the batch summary, then clears the queue and the counters
complete_batch(s) ==
    LET s1 == reset_ui(s) IN
    [s1 EXCEPT !.bm = clear_batch_queue(s1.bm),
               !.summaries = Min(@ + 1, MaxSummaries)]

\* A thread that ended and has no signal left in the queue
Spent(s, i) ==
    /\ s.threads[i].pc = "ended"
    /\ \A j \in 1..Len(s.posted) : s.posted[j].w # i

\* What is left of a spent thread once the controller created the next one
Forgotten == [DownloadThread EXCEPT !.pc = "ended"]

\* Creates self.thread, which replaces the reference to the thread before, and
\* schedules its start after the pre-download delay
start_download_with_settings(s, url) ==
    LET old == [i \in 1..Len(s.threads) |->
                  IF Spent(s, i) THEN Forgotten ELSE s.threads[i]]
    IN [s EXCEPT !.threads = Append(old, DownloadThread),
                 !.is_downloading = TRUE, !.dispatched = TRUE]

\* The state after add_to_batch returned r
Added(s, r) ==
    IF r.ret = RetTrue
    THEN [s EXCEPT !.bm = r.m, !.summaries = 0, !.dispatched = FALSE]
    ELSE [s EXCEPT !.bm = r.m]

start_batch_download(s, text) ==
    IF s.is_downloading THEN s
    ELSE IF s.block THEN [s EXCEPT !.block = FALSE]
    ELSE IF ~s.bm.is_batch_mode THEN s
    ELSE LET current_url == Strip(text)
             s1 == IF current_url # <<>> /\ ~is_playlist_url(current_url)
                   THEN Added(s, add_to_batch(s.bm, current_url, queue_limit))
                   ELSE s
             r == get_next_batch_item(s1.bm)
             s2 == [s1 EXCEPT !.bm = r.m]
         IN IF r.ret.k = "job" THEN start_download_with_settings(s2, r.ret.url)
            ELSE IF r.ret = RetRaise THEN s2
            ELSE IF is_batch_complete(s2.bm) THEN complete_batch(s2)
            ELSE s2

\* The format chooser is off
start_single_download(s, text) ==
    IF s.is_downloading THEN s
    ELSE LET url == Strip(text) IN
         IF url = <<>> THEN s
         ELSE start_download_with_settings([s EXCEPT !.download_button = FALSE],
                                           Plain(url))

\* The Download button with a text that is no playlist URL
start_download(s, text) ==
    IF s.bm.is_batch_mode THEN start_batch_download(s, text)
    ELSE start_single_download(s, text)

\* The batch checkbox: state 2 is checked
toggle_batch_mode(s, state) ==
    LET s1 == [s EXCEPT !.summaries = 0, !.dispatched = FALSE] IN
    IF state = 2 THEN [s1 EXCEPT !.bm = enable_batch_mode(s.bm), !.checkbox = TRUE]
    ELSE reset_ui([s1 EXCEPT !.bm = disable_batch_mode(s.bm), !.checkbox = FALSE])

\* The Clear Queue button
main_clear_batch_queue(s) ==
    [s EXCEPT !.bm = clear_batch_queue(s.bm), !.summaries = 0, !.dispatched = FALSE]

\* autopaste detected a video URL; link_input is cleared before the auto-start
on_url_detected(s, url) ==
    IF s.bm.is_batch_mode
    THEN LET r == add_to_batch(s.bm, url, queue_limit)
             s1 == Added(s, r)
         IN IF r.ret = RetTrue /\ ~s1.is_downloading
            THEN start_batch_download(s1, <<>>)
            ELSE s1
    ELSE s

\* The Cancel button: DownloadThread.cancel() sets the flag of the thread and of
\* its retry handler
cancel_download(s) ==
    LET n == Len(s.threads) IN
    IF n > 0 /\ isRunning(s.threads[n])
    THEN [s EXCEPT !.threads[n].is_cancelled = TRUE,
                   !.threads[n].cancel_req = TRUE,
                   !.threads[n].retry_handler = rh_cancel(s.threads[n].retry_handler),
                   !.is_downloading = FALSE]
    ELSE IF n > 0 /\ s.threads[n].pc = "scheduled"
    THEN [s EXCEPT !.threads[n].cancel_req = TRUE]
    ELSE s

\* batch_manager.mark_download_completed(success), made for a signal of thread w
record_outcome(s, w, success) ==
    [s EXCEPT !.bm = mark_download_completed(@, success),
              !.threads[w].rec_s = IF success THEN @ + 1 ELSE @,
              !.threads[w].rec_f = IF success THEN @ ELSE @ + 1]

\* After an outcome was recorded: the summary, but no timer for the next pump
continue_batch_unscheduled(s) ==
    IF ~is_batch_complete(s.bm) THEN s
    ELSE complete_batch(s)

\* After an outcome was recorded: the next pump on a timer, or the summary
continue_batch(s) ==
    IF ~is_batch_complete(s.bm) THEN [s EXCEPT !.timers = @ + 1]
    ELSE complete_batch(s)

handle_authentication_error(s, w, auth, text) ==
    IF auth = "cookie"
    THEN IF s.bm.is_batch_mode THEN start_batch_download(s, text)
         ELSE start_download_with_settings(s, Plain(Strip(text)))
    ELSE IF s.bm.is_batch_mode THEN continue_batch(record_outcome(s, w, FALSE))
         ELSE reset_ui(s)

on_download_failed(s, w, error_message, auth, text) ==
    LET s1 == [s EXCEPT !.is_downloading = FALSE,
                        !.download_button = IF s.bm.is_batch_mode THEN @ ELSE TRUE]
    IN IF Contains(error_message, ErrBot)
       THEN handle_authentication_error(s1, w, auth, text)
       ELSE IF s1.bm.is_batch_mode THEN continue_batch(record_outcome(s1, w, FALSE))
       ELSE reset_ui(s1)

on_download_finished(s, w) ==
    LET s1 == [s EXCEPT !.is_downloading = FALSE,
                        !.download_button = IF s.bm.is_batch_mode THEN @ ELSE TRUE]
    IN IF s1.bm.is_batch_mode THEN continue_batch(record_outcome(s1, w, TRUE))
       ELSE s1

\* --- playlists in the controller
\* What the user answers when the playlist prompt is shown
PromptChoices == {"trim", "settings", "cancel"}

\* Slot of playlist_loading: while the flag of a cancelled prompt is set it
\* clears the queue and leaves the flag as it is; everything else is display
on_playlist_loading(s) ==
    IF s.block THEN [s EXCEPT !.bm = clear_batch_queue(s.bm)] ELSE s

\* Slot of playlist_detected for a playlist that is no mix, with no format
\* chooser open. The prompt is modal; Open Settings leaves the settings as they
\* are.
on_playlist_detected(s, count, choice) ==
    IF ~s.checkbox THEN s
    ELSE IF queue_limit > 0 /\ (count > queue_limit \/ count <= 0)
    THEN IF choice = "trim"
         THEN [s EXCEPT !.bm = enforce_playlist_limit(s.bm, queue_limit)]
         ELSE IF choice = "settings" THEN s
         ELSE LET m == [clear_batch_queue(s.bm) EXCEPT !.current_playlist_info = NoInfo,
                                                       !.playlist_current_index = 0]
                  s1 == toggle_batch_mode([s EXCEPT !.bm = m], 0)
              IN reset_ui([s1 EXCEPT !.block = TRUE])
    ELSE s

\* The Download button with a playlist URL: ticks the batch checkbox, then
\* handle_playlist_url, whose playlist_loading signal runs its slot before the
\* extractor is created. s is the state it leaves, ex the extractor started.
start_download_playlist(s, url) ==
    LET s1 == IF ~s.checkbox THEN toggle_batch_mode(s, 2) ELSE s
        s2 == on_playlist_loading(s1)
        r == handle_playlist_url(s2.bm, url, queue_limit)
    IN [s |-> [s2 EXCEPT !.bm = r.m], ex |-> r.ex, ev |-> r.ev]

\* BatchModeManager.on_playlist_info_extracted with the controller's slots
\* connected: playlist_detected is emitted after the descriptor is stored,
\* playlist_loading after the queue is filled
playlist_info_extracted(s, info, video_count, limit, choice) ==
    LET s1 == [s EXCEPT !.bm = playlist_info_stored(s.bm, info)]
        s2 == on_playlist_detected(s1, video_count, choice)
        s3 == [s2 EXCEPT !.bm = playlist_queue_filled(s2.bm, video_count, limit)]
    IN on_playlist_loading(s3)

\* --- the user and the timers
ToggleBatch == Commit(toggle_batch_mode(App, IF batch_checkbox THEN 0 ELSE 2))

ClickDownload(text) == download_button /\ Commit(start_download(App, text))

ClickCancel == Commit(cancel_download(App))

ClickClear == bm.is_batch_mode /\ Commit(main_clear_batch_queue(App))

UrlDetected(url) == Commit(on_url_detected(App, url))

\* A QTimer.singleShot(..., self.start_batch_download) fires
TimerPump(text) ==
    /\ timers > 0
    /\ Commit(start_batch_download([App EXCEPT !.timers = @ - 1], text))

\* --- the queued signals, handled by the main thread in posting order
OnDownloadFailed(auth, text) ==
    /\ posted # <<>>
    /\ Head(posted).sig = "download_failed"
    /\ Commit(on_download_failed([App EXCEPT !.posted = Tail(@)], Head(posted).w,
                                 Head(posted).msg, auth, text))

OnDownloadFinished ==
    /\ posted # <<>>
    /\ Head(posted).sig = "finished"
    /\ Commit(on_download_finished([App EXCEPT !.posted = Tail(@)], Head(posted).w))

\* --- DownloadThread i
tvars == <<bm, is_downloading, block_batch_after_cancel, download_button,
           batch_checkbox, timers, summaries, dispatched>>

\* The thread after a step of execute_with_retry left the handler h: run()
\* goes on after the try, or into the except block
Settle(t, h) ==
    [t EXCEPT !.retry_handler = h,
              !.download_success = (h.pc = "done" /\ h.outcome = "returned"),
              !.pc = IF h.pc # "done" THEN "run"
                     ELSE IF h.outcome = "returned" THEN "finally" ELSE "except"]

\* The pre-download timer fires thread.start
TStart(i) ==
    /\ threads[i].pc = "scheduled"
    /\ threads' = [threads EXCEPT ![i].pc = "run"]
    /\ UNCHANGED <<tvars, posted, hvars>>

TTop(i) ==
    /\ threads[i].pc = "run" /\ threads[i].retry_handler.pc = "top"
    /\ threads' = [threads EXCEPT ![i] = Settle(@, rh_top(@.retry_handler))]
    /\ UNCHANGED <<tvars, posted, hvars>>

TWake(i) ==
    /\ threads[i].pc = "run" /\ threads[i].retry_handler.pc = "sleep"
    /\ threads' = [threads EXCEPT ![i] = Settle(@, rh_wake(@.retry_handler))]
    /\ UNCHANGED <<tvars, posted, hvars>>

\* _download_with_ytdl is entered; its first checkpoint raises if the thread is
\* already cancelled
TCall(i) ==
    /\ threads[i].pc = "run" /\ threads[i].retry_handler.pc = "call"
    /\ threads' = [threads EXCEPT ![i] =
         IF @.is_cancelled
         THEN Settle(@, rh_return(rh_call(@.retry_handler), ErrDownloadCancelled))
         ELSE Settle(@, rh_call(@.retry_handler))]
    /\ UNCHANGED <<tvars, posted, hvars>>

\* _download_with_ytdl returns or raises; a cancel that arrived during the call
\* may or may not be seen by the checkpoints still ahead
TReturn(i, result) ==
    /\ threads[i].pc = "run" /\ threads[i].retry_handler.pc = "infunc"
    /\ result = ErrDownloadCancelled => threads[i].is_cancelled
    /\ is_retryable_error(result) /\ result # NoErr
         => threads[i].retry_handler.attempt < MaxTransient
    /\ threads' = [threads EXCEPT ![i] = Settle(@, rh_return(@.retry_handler, result))]
    /\ UNCHANGED <<tvars, posted, hvars>>

\* The except block of run emitting download_failed whatever the cancel flag is
TExcept_unconditional(i) ==
    /\ threads[i].pc = "except"
    /\ threads' = [threads EXCEPT ![i].pc = "finally",
                                  ![i].sigs = Append(@, "download_failed")]
    /\ posted' = Append(posted, Signal("download_failed", i,
                                        FailMsg(threads[i].retry_handler.error)))
    /\ UNCHANGED <<tvars, hvars>>

\* The except block of run: download_failed unless the thread is cancelled
TExcept(i) ==
    /\ threads[i].pc = "except"
    /\ threads' = [threads EXCEPT ![i].pc = "finally",
                                  ![i].sigs = IF threads[i].is_cancelled THEN @
                                              ELSE Append(@, "download_failed")]
    /\ posted' = IF threads[i].is_cancelled THEN posted
                 ELSE Append(posted, Signal("download_failed", i,
                                            FailMsg(threads[i].retry_handler.error)))
    /\ UNCHANGED <<tvars, hvars>>

\* The finally block of run: cleanup_partial_files() runs in the cancelled branch
\* only (`cleaned`), and it always ends with finished.emit(). The retry handler is
\* of no use after it.
TFinally(i) ==
    LET t == threads[i] IN
    /\ t.pc = "finally"
    /\ threads' = [threads EXCEPT ![i] =
         [t EXCEPT !.pc = "ended",
                   !.retry_handler = RetryHandler(3, <<30, 60, 180>>),
                   !.cleaned = t.is_cancelled,
                   !.sigs = Append(@, "finished"),
                   !.outcome = IF t.is_cancelled THEN "cancelled"
                               ELSE IF t.download_success THEN "success"
                               ELSE "failed"]]
    /\ posted' = Append(posted, Signal("finished", i, NoErr))
    /\ UNCHANGED <<tvars, hvars>>

\* The Download button with the playlist URL in the link field
SubmitPlaylist(url) ==
    LET r == start_download_playlist(App, Strip(url)) IN
    /\ download_button
    /\ Len(extractions) + Len(r.ex) <= MaxExtractions
    /\ CommitCtl(r.s)
    /\ extractions' = extractions \o
          [j \in 1..Len(r.ex) |-> [r.ex[j] EXCEPT !.after_cancel = block_batch_after_cancel]]
    /\ op' = "start_download" /\ ret' = RetNone /\ events' = r.ev
    /\ Called(Args(url, queue_limit, 0))
    /\ Impure
    /\ UNCHANGED <<queue_limit, rh>>

\* The extractor of resolution j reports a playlist; arg.b tells whether the
\* user cancelled the prompt
PlaylistExtracted(j, video_count, nent, choice) ==
    LET e == extractions[j]
        prompted == batch_checkbox /\ queue_limit > 0
                      /\ (video_count > queue_limit \/ video_count <= 0)
    IN
    /\ CommitCtl(playlist_info_extracted(App, PlaylistInfo(nent, e.url), video_count,
                                         e.queue_limit, choice))
    /\ extractions' = DelAt(extractions, j - 1)
    /\ op' = "on_playlist_info_extracted" /\ ret' = RetNone /\ events' = <<>>
    /\ Called(Args(e.url, video_count, IF prompted /\ choice = "cancel" THEN 1 ELSE 0))
    /\ Impure
    /\ UNCHANGED <<queue_limit, rh>>



\* The queue limit is the default of the settings
Init == QInit /\ queue_limit = DefaultQueueLimit

Next ==
    \/ ToggleBatch
    \/ \E text \in LinkTexts : ClickDownload(text)
    \/ ClickCancel
    \/ ClickClear
    \/ \E url \in LinkTexts \ {<<>>} : UrlDetected(url)
    \/ \E text \in LinkTexts : TimerPump(text)
    \/ \E auth \in AuthOutcomes : \E text \in LinkTexts : OnDownloadFailed(auth, text)
    \/ OnDownloadFinished
    \/ \E i \in 1..Len(threads) :
         \/ TStart(i)
         \/ TTop(i)
         \/ TWake(i)
         \/ TCall(i)
         \/ \E result \in DownloadResults \cup {ErrDownloadCancelled} : TReturn(i, result)
         \/ TExcept(i)
         \/ TFinally(i)

Spec == Init /\ [][Next]_vars

\* The controller with playlists: the user toggles the checkbox, submits plain
\* and playlist URLs and answers the prompt; every download succeeds
BlockNext ==
    \/ ToggleBatch
    \/ \E text \in {<<>>, <<"a">>} : ClickDownload(text)
    \/ \E url \in PlaylistRaw : SubmitPlaylist(url)
    \/ \E j \in 1..Len(extractions) : \E p \in Reports(extractions[j].cap) :
         \E choice \in PromptChoices : PlaylistExtracted(j, p[1], p[2], choice)
    \/ \E text \in {<<>>, <<"a">>} : TimerPump(text)
    \/ OnDownloadFinished
    \/ \E i \in 1..Len(threads) :
         \/ TStart(i)
         \/ TTop(i)
         \/ TCall(i)
         \/ TReturn(i, NoErr)
         \/ TFinally(i)

SpecBlock == Init /\ [][BlockNext]_vars

\* ------------------------------------------------- a batch run left alone
\* Batch mode is on with one job per thread the run may create; the user
\* presses Download with an empty link field and never cancels, clears or
\* toggles. enq holds the queued URLs, deq the URLs dispatched so far.
LiveQueues == { q \in EditQueues : 1 <= Len(q) /\ Len(q) <= MaxThreads }

LiveInit ==
    /\ \E q \in LiveQueues :
         /\ bm = [enable_batch_mode(NewManager) EXCEPT !.batch_queue = q]
         /\ enq = [j \in 1..Len(q) |-> q[j]]
    /\ queue_limit = DefaultQueueLimit
    /\ extractions = <<>>
    /\ op = "init" /\ ret = RetNone /\ events = <<>>
    /\ pure = FALSE /\ deq = <<>>
    /\ fresh = FALSE /\ ncalls = 0
    /\ arg = NoArg /\ after_remove = FALSE
    /\ rh = RetryHandler(3, <<>>)
    /\ is_downloading = FALSE
    /\ block_batch_after_cancel = FALSE
    /\ download_button = TRUE
    /\ batch_checkbox = TRUE
    /\ threads = <<>>
    /\ posted = <<>>
    /\ timers = 0
    /\ summaries = 0
    /\ dispatched = FALSE

\* A handler leaves the state s; when it created a thread, the job it took from
\* get_next_batch_item is logged
Dispatch(s) ==
    /\ CommitCtl(s)
    /\ deq' = IF Len(s.threads) > Len(threads)
              THEN Append(deq, get_next_batch_item(bm).ret.url)
              ELSE deq
    /\ UNCHANGED <<queue_limit, extractions, op, ret, events, pure, enq, fresh, ncalls,
                   arg, after_remove, rh>>

LiveClick == download_button /\ Dispatch(start_download(App, <<>>))

LiveTimerPump ==
    /\ timers > 0
    /\ Dispatch(start_batch_download([App EXCEPT !.timers = @ - 1], <<>>))

LiveDownloadFailed ==
    /\ posted # <<>>
    /\ Head(posted).sig = "download_failed"
    /\ \E auth \in AuthOutcomes :
         Dispatch(on_download_failed([App EXCEPT !.posted = Tail(@)], Head(posted).w,
                                     Head(posted).msg, auth, <<>>))

LiveDownloadFinished ==
    /\ posted # <<>>
    /\ Head(posted).sig = "finished"
    /\ Dispatch(on_download_finished([App EXCEPT !.posted = Tail(@)], Head(posted).w))

\* A step of thread i; every call of _download_with_ytdl ends
LiveThread(i) ==
    /\ i <= Len(threads)
    /\ \/ TStart(i)
       \/ TTop(i)
       \/ TWake(i)
       \/ TCall(i)
       \/ \E result \in DownloadResults : TReturn(i, result)
       \/ TExcept(i)
       \/ TFinally(i)

LiveNext ==
    \/ LiveClick
    \/ LiveTimerPump
    \/ LiveDownloadFailed
    \/ LiveDownloadFinished
    \/ \E i \in 1..MaxThreads : LiveThread(i)

\* The event loop delivers every timer and every queued signal, and every
\* started thread keeps running
LiveFairness ==
    /\ WF_vars(LiveTimerPump)
    /\ WF_vars(LiveDownloadFailed)
    /\ WF_vars(LiveDownloadFinished)
    /\ \A i \in 1..MaxThreads : WF_vars(LiveThread(i))

SpecLive == LiveInit /\ [][LiveNext]_vars /\ LiveFairness

\* ------------------------------------------------------------------ claims

\* C1: FIFO dispatch. While only add_to_batch and get_next_batch_item have run
\* since batch mode was enabled, the jobs returned so far are, in order, the first
\* URLs that were accepted, get_next_batch_item never raises, and it returns None
\* only when every accepted URL has been returned.
C1_FifoDispatch ==
    pure =>
        /\ Len(deq) <= Len(enq)
        /\ deq = SubSeq(enq, 1, Len(deq))
        /\ (op = "get_next_batch_item" =>
              /\ ret.k \in {"job", "None"}
              /\ (ret = RetNone => deq = enq))

\* Three URLs were enqueued and dispatched in order, and the next call returned None
C1_Witness ==
    /\ pure /\ Len(enq) = 3 /\ deq = enq
    /\ op = "get_next_batch_item" /\ ret = RetNone

\* C5: playlist materialization order. After a playlist callback, the i-th
\* get_next_batch_item call (i = 0 .. k-1, k placeholders enqueued, entry ref e_i
\* resolved) returns a job whose URL is built from entry ref e_i.
C5_PlaylistOrder ==
    (/\ fresh /\ op = "get_next_batch_item"
     /\ ncalls >= 1 /\ ncalls <= Len(bm.batch_queue)
     /\ ncalls <= Len(bm.current_playlist_info.entries))
    => /\ ret.k = "job"
       /\ ret.url.k = "entry"
       /\ ret.url.n = bm.current_playlist_info.entries[ncalls]

\* C6: cursor invariant. 0 <= current_batch_index <= len(batch_queue), and
\* is_batch_complete() exactly when the two are equal.
C6_CursorInvariant ==
    /\ 0 <= bm.current_batch_index
    /\ bm.current_batch_index <= Len(bm.batch_queue)
    /\ (is_batch_complete(bm) <=> bm.current_batch_index = Len(bm.batch_queue))

\* C7: retry budget. The job function is never called more than max_retries + 1
\* times; when every call failed with a retryable error and nobody cancelled, the
\* run ends after exactly max_retries + 1 calls, having emitted retry_failed last
\* and raising the last error.
Retryable(e) ==
    /\ ~MatchesAny(Lower(e), non_retryable_patterns)
    /\ e # NoErr

C7_RetryBudget ==
    /\ rh.calls <= rh.max_retries + 1
    /\ (/\ rh.pc = "done" /\ ~rh.is_cancelled
        /\ \A j \in 1..Len(rh.results) : Retryable(rh.results[j]))
       => /\ rh.calls = rh.max_retries + 1
          /\ rh.outcome = "raised"
          /\ rh.error = rh.results[Len(rh.results)]
          /\ rh.events[Len(rh.events)].name = "retry_failed"

\* max_retries = 3, four failing calls, retry_failed emitted
C7_Witness ==
    /\ rh.pc = "done" /\ ~rh.is_cancelled /\ rh.max_retries = 3 /\ rh.calls = 4
    /\ \A j \in 1..Len(rh.results) : Retryable(rh.results[j])
    /\ rh.events[Len(rh.events)].name = "retry_failed"

\* C8: fatal short-circuit. A call that fails with an error matching the fatal
\* list is the last call: the run has ended raising that error, with no sleep,
\* no retry_attempt and no retry_failed after it.
FatalError(e) == MatchesAny(Lower(e), non_retryable_patterns)

RetryAttempts(evs) == Cardinality({j \in 1..Len(evs) : evs[j].name = "retry_attempt"})

C8_FatalShortCircuit ==
    \A j \in 1..Len(rh.results) :
        FatalError(rh.results[j]) =>
            /\ j = Len(rh.results) /\ rh.calls = j
            /\ rh.pc = "done" /\ rh.outcome = "raised" /\ rh.error = rh.results[j]
            /\ Len(rh.slept) = j - 1
            /\ RetryAttempts(rh.events) = j - 1
            /\ \A k \in 1..Len(rh.events) : rh.events[k].name # "retry_failed"

\* A first attempt failed with "Private video" with retries left: one call, no sleep
C8_Witness ==
    /\ rh.max_retries = 3 /\ rh.results = <<ErrPrivate>> /\ rh.calls = 1
    /\ rh.pc = "done" /\ rh.error = ErrPrivate /\ rh.slept = <<>>

\* C9: cancellation precedence. When cancel() came before the first pass of the
\* loop head, the job function is never called, no retry signal is emitted, and
\* the run ends raising "Retry cancelled by user".
C9_CancelPrecedence ==
    rh.early_cancel =>
        /\ rh.calls = 0 /\ rh.events = <<>> /\ rh.slept = <<>>
        /\ rh.pc \in {"top", "done"}
        /\ (rh.pc = "done" => rh.outcome = "raised" /\ rh.error = ErrRetryCancelled)

\* Cancelled before the first attempt, and the run has ended
C9_Witness == rh.early_cancel /\ rh.pc = "done" /\ rh.calls = 0

\* A thread that was scheduled or started and has not emitted finished
InFlight(t) == t.pc \in {"scheduled", "run", "except", "finally"}

\* C2: at most one job in flight. At any time at most one DownloadThread has
\* been scheduled or started and has not yet emitted its finished signal.
C2_SingleInFlight ==
    Cardinality({i \in 1..Len(threads) : InFlight(threads[i])}) <= 1

\* The main thread is about to handle the finished signal of a thread that ended
\* cancelled, in batch mode with items not yet dispatched
CancelledFinishedNext ==
    /\ posted # <<>>
    /\ Head(posted).sig = "finished"
    /\ threads[Head(posted).w].outcome = "cancelled"
    /\ bm.is_batch_mode
    /\ bm.current_batch_index < Len(bm.batch_queue)

\* C3: cancellation stops the pump. Handling the finished signal of a cancelled
\* thread schedules no pump, dequeues nothing and starts no thread, even if
\* items of the queue are not yet dispatched.
C3_CancelStopsPump ==
    [][(CancelledFinishedNext /\ posted' = Tail(posted))
         => /\ timers' = timers
            /\ bm'.current_batch_index = bm.current_batch_index
            /\ Len(threads') = Len(threads)]_vars

\* C4: every outcome is recorded once, in the matching counter. For the signals of
\* one thread mark_download_completed is called at most once; never with
\* success=False for a thread that succeeded, never with success=True for one
\* that failed, and not at all for one that was cancelled.
C4_OutcomeRecordedOnce ==
    \A i \in 1..Len(threads) :
        LET t == threads[i] IN
        /\ t.rec_s + t.rec_f <= 1
        /\ (t.outcome = "success" => t.rec_f = 0)
        /\ (t.outcome = "failed" => t.rec_s = 0)
        /\ (t.outcome = "cancelled" => t.rec_s = 0 /\ t.rec_f = 0)

\* C10: idempotent completion. After a download was dispatched, and until the
\* user adds a URL, clears the queue or switches the batch mode, the batch summary
\* is logged at most once, whatever pumps follow and however the last job ended.
C10_SummaryOnce == dispatched => summaries <= 1

\* ---------------------------------------------------------------- C11
\* The call was given a non-empty plain (non-playlist) URL
PlainArg(a) == Strip(a.url) # <<>> /\ ~is_playlist_url(Strip(a.url))

\* The queue item a call's URL argument stands for
ArgItem(a) == Plain(Strip(a.url))

C11_Step ==
    (op' = "add_to_batch" /\ PlainArg(arg')) =>
        IF Len(bm.batch_queue) >= queue_limit
        THEN /\ ret' = RetFalse
             /\ events' = <<Ev("queue_limit_reached", Len(bm.batch_queue), 0)>>
             /\ bm' = bm
        ELSE ~InQueue(ArgItem(arg'), bm.batch_queue) =>
               /\ ret' = RetTrue
               /\ bm'.batch_queue = Append(bm.batch_queue, ArgItem(arg'))

\* C11: add_to_batch of a plain URL while len(batch_queue) >= queue_limit returns
\* False, emits queue_limit_reached(len(batch_queue)) and changes nothing in the
\* manager; while the queue is below the limit (as it is after a
\* remove_from_queue from a full queue) a new plain URL is accepted and appended.
C11_CapacityAdmission == [][C11_Step]_vars

\* a full queue lost an item to remove_from_queue and the next add_to_batch
\* filled it again
C11_Witness ==
    /\ op = "add_to_batch" /\ ret = RetTrue /\ after_remove
    /\ Len(bm.batch_queue) = queue_limit /\ queue_limit >= 2

\* ---------------------------------------------------------------- C12
C12_Step ==
    LET q == bm.batch_queue
        c == bm.current_batch_index
        q1 == bm'.batch_queue
        c1 == bm'.current_batch_index
    IN (op' = "move_in_queue" /\ ret' = RetTrue /\ 0 <= c /\ c <= Len(q)) =>
         /\ Len(q1) = Len(q)
         /\ IF c < Len(q) THEN c1 \in 0..(Len(q1) - 1) /\ q1[c1 + 1] = q[c + 1]
                          ELSE c1 = Len(q1)
         /\ (Len(q) = 4 /\ c = 2 /\ arg' = Args(<<>>, 0, 3)) =>
              c1 = 1 /\ q1 = <<q[2], q[3], q[4], q[1]>>

\* C12: after a move_in_queue(from, to) that returns True, the item at the new
\* cursor index is the item that was at the old cursor index, and a cursor equal
\* to len(items) stays equal to it; items [A,B,C,D] with cursor 2 and move(0, 3)
\* give [B,C,D,A] with cursor 1.
C12_MoveKeepsCursorItem == [][C12_Step]_vars

\* move(0, 3) on four items has just brought the cursor to 1, with a pending
\* item under it
C12_Witness ==
    /\ op = "move_in_queue" /\ ret = RetTrue /\ arg = Args(<<>>, 0, 3)
    /\ Len(bm.batch_queue) = 4 /\ bm.current_batch_index = 1

\* ---------------------------------------------------------------- C13
\* C13: the k-th sleep of execute_with_retry, the one before attempt k >= 1,
\* lasts retry_delays[min(k-1, len(retry_delays)-1)]; with the default schedule
\* [30,60,180] the sleeps are 30, 60, 180, 180, 180, ...; func is called for
\* attempt a after exactly a sleeps, so for attempt 0 after none.
C13_BackoffSchedule ==
    /\ \A k \in 1..Len(rh.slept) :
         rh.slept[k] = rh.retry_delays[Min(k - 1, Len(rh.retry_delays) - 1) + 1]
    /\ rh.retry_delays = <<30, 60, 180>> =>
         \A k \in 1..Len(rh.slept) :
           rh.slept[k] = IF k = 1 THEN 30 ELSE IF k = 2 THEN 60 ELSE 180
    /\ rh.pc = "infunc" => Len(rh.slept) = rh.attempt
    /\ rh.pc = "sleep" => rh.attempt >= 1 /\ Len(rh.slept) = rh.attempt - 1

\* attempt 5 of the default schedule is running: its delay was clamped to 180
C13_Witness ==
    /\ rh.pc = "infunc" /\ rh.attempt = 5
    /\ rh.slept = <<30, 60, 180, 180, 180>>

\* ---------------------------------------------------------------- C14
\* The error text contains a pattern of the retryable list
ListedRetryable(e) == MatchesAny(Lower(e), retryable_patterns)

\* C14: every error the job function raised was classified by the fatal list
\* first: one that contains a fatal pattern (whether or not it also contains a
\* retryable one) is not retryable and ended the run; one that contains only
\* retryable patterns, or none of either list, is retryable and was followed by
\* another attempt unless the budget was spent or the run was cancelled. Both
\* cancellation errors are fatal: a run that ended with one made no attempt
\* after it.
C14_ErrorClassification ==
    /\ \A j \in 1..Len(rh.results) :
         LET e == rh.results[j] IN
         e # NoErr =>
           /\ FatalError(e) =>
                /\ ~is_retryable_error(e)
                /\ j = Len(rh.results) /\ rh.calls = j
                /\ rh.pc = "done" /\ rh.outcome = "raised" /\ rh.error = e
           /\ (~FatalError(e) /\ ListedRetryable(e)) => is_retryable_error(e)
           /\ (~FatalError(e) /\ ~ListedRetryable(e)) => is_retryable_error(e)
           /\ ~FatalError(e) =>
                \/ j < Len(rh.results)
                \/ rh.pc # "done"
                \/ j = rh.max_retries + 1
                \/ rh.is_cancelled
    /\ (rh.pc = "done" /\ rh.error \in {ErrRetryCancelled, ErrDownloadCancelled}) =>
         /\ FatalError(rh.error) /\ ~is_retryable_error(rh.error)
         /\ rh.outcome = "raised" /\ rh.is_cancelled
         /\ rh.calls = Len(rh.results)

\* an unlisted error and a listed retryable one were each retried, then an error
\* matching both lists ended the run with retries left
C14_Witness ==
    /\ rh.results = <<ErrUnknown, ErrTimeout, ErrMixed>> /\ rh.max_retries = 5
    /\ rh.pc = "done" /\ rh.error = ErrMixed /\ rh.calls = 3 /\ ~rh.is_cancelled
    /\ FatalError(ErrMixed) /\ ListedRetryable(ErrMixed)
    /\ ListedRetryable(ErrTimeout) /\ ~ListedRetryable(ErrUnknown)

\* ---------------------------------------------------------------- C15
\* The signals emitted include queue_limit_warning
Warned(evs) == \E j \in 1..Len(evs) : evs[j].name = "queue_limit_warning"

\* n items are at or above 80% of the limit, exactly or as the code rounds it
AtWarnSize(n, limit) == 10 * n >= 8 * limit \/ n >= WarnAt(limit)

\* n items are below 80% of the limit, exactly or as the code rounds it
BelowWarnSize(n, limit) == 10 * n < 8 * limit \/ n < WarnAt(limit)

C15_OnceStep ==
    Warned(events') =>
        /\ op' = "add_to_batch"
        /\ BelowWarnSize(Len(bm.batch_queue), queue_limit)
        /\ AtWarnSize(Len(bm'.batch_queue), queue_limit)

\* C15 as stated: queue_limit_warning is emitted only by the append that takes
\* len(batch_queue) from below 80% of queue_limit to at or above it, not by
\* later appends while the queue is still at or above 80%.
C15_WarnOncePerCrossing == [][C15_OnceStep]_vars

C15_EveryStep ==
    /\ Warned(events') <=>
         /\ op' = "add_to_batch" /\ PlainArg(arg') /\ ret' = RetTrue
         /\ Len(bm'.batch_queue) >= (queue_limit * 8) \div 10
    /\ Warned(events') =>
         events' = <<Ev("queue_updated", 0, 0),
                     Ev("queue_limit_warning", Len(bm'.batch_queue), queue_limit)>>

\* C15 amended: queue_limit_warning(size, limit) is emitted by every accepted
\* plain-URL append that leaves len(batch_queue) >= int(0.8 * queue_limit),
\* whether or not the queue was already that long, and by nothing else.
C15_WarnEveryAppend == [][C15_EveryStep]_vars

\* with limit 5 the append from four items (80%) to five warned again
C15_Witness ==
    /\ op = "add_to_batch" /\ ret = RetTrue /\ queue_limit = 5
    /\ Len(bm.batch_queue) = 5
    /\ events = <<Ev("queue_updated", 0, 0), Ev("queue_limit_warning", 5, 5)>>

\* ---------------------------------------------------------------- C16
\* min(itemCount, capacityLimit, persistentPlaylistCap), a cap of 0 meaning none
PlaylistQuota(m, video_count, limit) ==
    LET t1 == IF limit > 0 THEN Min(video_count, limit) ELSE video_count
    IN IF m.playlist_max_items > 0 THEN Min(t1, m.playlist_max_items) ELSE t1

C16_Step ==
    LET q == bm.batch_queue
        q1 == bm'.batch_queue
        k == PlaylistQuota(bm, arg'.a, queue_limit)
    IN (op' = "on_playlist_info_extracted" /\ bm.is_batch_mode) =>
         /\ Len(q1) = Len(q) + k
         /\ SubSeq(q1, 1, Len(q)) = q
         /\ \A j \in 1..k : q1[Len(q) + j] = Placeholder(j - 1)
         /\ bm'.current_batch_index = bm.current_batch_index

\* C16: a playlist resolution that completes while batch mode is active adds
\* exactly min(itemCount, capacityLimit, persistentPlaylistCap) placeholders
\* after the items already queued; those items, their order and the cursor are
\* as before.
C16_PlaylistAppends == [][C16_Step]_vars

\* ---------------------------------------------------------------- C17
C17_Step ==
    (/\ op' = "on_playlist_info_extracted"
     /\ Len(extractions) = 1 /\ extractions[1].active
     /\ ~bm.is_batch_mode) =>
        /\ ~bm'.is_batch_mode
        /\ bm'.batch_queue = <<>>
        /\ bm'.current_batch_index = 0
        /\ bm'.successful_downloads = 0 /\ bm'.failed_downloads = 0
        /\ bm'.current_playlist_info = NoInfo

\* C17: when a playlist resolution was started with batch mode active and batch
\* mode was disabled before it completed, the completion callback leaves batch
\* mode disabled, the queue empty, the cursor and both counters 0 and no
\* playlist descriptor held.
C17_LateCallbackIgnored == [][C17_Step]_vars

\* ---------------------------------------------------------------- C18
C18_Step ==
    (/\ op' = "add_to_batch" /\ PlainArg(arg')
     /\ Len(bm.batch_queue) < queue_limit
     /\ \E j \in 1..Len(bm.batch_queue) : bm.batch_queue[j] = ArgItem(arg')) =>
        /\ ret' = RetFalse
        /\ events' = <<>>
        /\ bm' = bm

\* C18: add_to_batch of a plain URL whose trimmed text is already in
\* batch_queue, pending or dispatched, with the queue below its limit, returns
\* False, emits no signal and leaves the manager as it was.
C18_Deduplication == [][C18_Step]_vars

\* " a " was offered while "a", already dispatched, was in a queue with room
C18_Witness ==
    /\ op = "add_to_batch" /\ ret = RetFalse /\ events = <<>>
    /\ arg.url = <<" ", "a", " ">>
    /\ Len(bm.batch_queue) < queue_limit
    /\ bm.current_batch_index >= 1
    /\ bm.batch_queue[1] = Plain(<<"a">>)

\* ---------------------------------------------------------------- C19
C19_Step ==
    /\ Len(extractions') > Len(extractions) =>
         /\ op' \in {"add_to_batch", "handle_playlist_url"}
         /\ bm' = bm
         /\ events' = <<Ev("playlist_loading", 0, 0)>>
    /\ op' = "on_playlist_extraction_failed" =>
         /\ bm' = bm
         /\ events' = <<Ev("playlist_loading", 0, 0)>>

C20_PartialsCleaned ==
    \A i \in 1..Len(threads) :
        (threads[i].pc = "ended" /\ threads[i].outcome \in {"cancelled", "failed"}) =>
            threads[i].cleaned

\* ---------------------------------------------------------------- C21
\* C21: a job for which Cancel was pressed at any moment after it was marked in
\* flight, the pre-start delay included, ends with the cancellation outcome.
C21_CancelAnyTime ==
    \A i \in 1..Len(threads) :
        (threads[i].cancel_req /\ threads[i].pc = "ended") =>
            threads[i].outcome = "cancelled"

\* ---------------------------------------------------------------- C22
\* C22: when cancel() came while execute_with_retry was sleeping before retry
\* attempt a, the job function is not called for attempt a (the calls made stay
\* at a) and the run ends raising "Retry cancelled by user".
C22_CancelDuringBackoff ==
    rh.sleep_cancel =>
        /\ rh.calls = rh.attempt
        /\ rh.pc \in {"sleep", "call", "done"}
        /\ (rh.pc = "done" => rh.outcome = "raised" /\ rh.error = ErrRetryCancelled)

\* ---------------------------------------------------------------- C23
C23_Step ==
    LET q == bm.batch_queue
        c == bm.current_batch_index
    IN (/\ op' = "get_next_batch_item"
        /\ bm.is_batch_mode /\ c < Len(q)
        /\ IsPlaceholder(q[c + 1])
        /\ get_playlist_video_url(bm, ItemIndex(q[c + 1])) = NoUrl) =>
           /\ ret' = RetNone
           /\ bm'.current_batch_index = c + 1

\* C23: when get_next_batch_item reaches a placeholder for which no URL can be
\* derived (no playlist descriptor held), it advances the cursor and returns None
\* without raising.
C23_MaterializationSkip == [][C23_Step]_vars

\* C24: the flag set by a cancelled playlist prompt suppresses exactly one pump.
\* The step that clears the flag dequeues nothing and starts no download; no
\* pump attempt made on a timer leaves the flag set; and a playlist submitted
\* after the cancel, when it resolves with at least one video and the user does
\* not cancel again, leaves its placeholders in the queue.
C24_ClearStep ==
    block_batch_after_cancel /\ ~block_batch_after_cancel'
        => bm' = bm /\ threads' = threads

C24_PumpStep == timers' < timers => ~block_batch_after_cancel'

C24_LaterPlaylistStep ==
    ( /\ Len(extractions') < Len(extractions)
      /\ extractions[1].after_cancel
      /\ op' = "on_playlist_info_extracted"
      /\ arg'.a >= 1 /\ arg'.b = 0 )
        => Len(bm'.batch_queue) >= 1

C24_BlockOnePump == [][C24_ClearStep /\ C24_PumpStep /\ C24_LaterPlaylistStep]_vars

\* C25: enforce_playlist_limit(limit) with limit > 0 keeps the first `limit`
\* items in order, leaves current_batch_index and playlist_current_index no
\* larger than the new length, and is sticky: the cap it stores survives
\* clear_batch_queue, disable_batch_mode and enable_batch_mode, and a playlist
\* resolution that completes while a cap is stored enqueues at most that many
\* placeholders.
C25_TrimStep ==
    op' = "enforce_playlist_limit" /\ arg'.a > 0
        => /\ bm'.batch_queue = SubSeq(bm.batch_queue, 1, Min(arg'.a, Len(bm.batch_queue)))
           /\ bm'.playlist_max_items = arg'.a

C25_ClampStep ==
    op' = "enforce_playlist_limit" /\ arg'.a > 0
        => /\ bm'.current_batch_index = Min(bm.current_batch_index, Len(bm'.batch_queue))
           /\ bm'.playlist_current_index = Min(bm.playlist_current_index, Len(bm'.batch_queue))

C25_StickyStep ==
    /\ op' \in {"clear_batch_queue", "disable_batch_mode", "enable_batch_mode"}
         => bm'.playlist_max_items = bm.playlist_max_items
    /\ op' = "on_playlist_info_extracted" /\ bm.playlist_max_items > 0
         => /\ Len(bm'.batch_queue) <= bm.playlist_max_items
            /\ \A j \in 1..Len(bm'.batch_queue) : bm'.batch_queue[j] = Placeholder(j - 1)

C25_EnforcePlaylistLimit == [][C25_TrimStep /\ C25_ClampStep /\ C25_StickyStep]_vars

\* C26: remove_from_queue(index) with a valid index deletes exactly that item
\* and keeps the order of the others, decrements the cursor exactly when
\* index < cursor, so that a next-to-dispatch item that was not removed is still
\* the one under the cursor, and does so whatever the queue length is relative to
\* the limit; with an index out of range it changes nothing and emits nothing.
C26_Step ==
    op' = "remove_from_queue" =>
        LET index == arg'.a
            q == bm.batch_queue
            c == bm.current_batch_index
        IN IF 0 <= index /\ index < Len(q)
           THEN /\ Len(bm'.batch_queue) = Len(q) - 1
                /\ \A j \in 1..Len(q) - 1 :
                     bm'.batch_queue[j] = IF j <= index THEN q[j] ELSE q[j + 1]
                /\ bm'.current_batch_index = IF index < c THEN c - 1 ELSE c
                /\ c < Len(q) /\ index # c
                     => bm'.batch_queue[bm'.current_batch_index + 1] = q[c + 1]
                /\ events' = <<Ev("queue_updated", 0, 0)>>
                /\ bm' = [bm EXCEPT !.batch_queue = bm'.batch_queue,
                                    !.current_batch_index = bm'.current_batch_index]
           ELSE bm' = bm /\ events' = <<>>

C26_RemoveFromQueue == [][C26_Step]_vars

\* An item before the cursor was removed from a queue longer than the limit,
\* with a pending item left under the cursor
C26_Witness ==
    /\ op = "remove_from_queue" /\ events # <<>>
    /\ Len(bm.batch_queue) >= queue_limit
    /\ arg.a < bm.current_batch_index
    /\ bm.current_batch_index < Len(bm.batch_queue)

\* C29: a valid move_in_queue never changes which items are still to be
\* dispatched: the set of items at indices >= cursor after the move is the set of
\* items at indices >= cursor before it.
Pending(m) ==
    { m.batch_queue[j] : j \in m.current_batch_index + 1 .. Len(m.batch_queue) }

C29_Step ==
    ( /\ op' = "move_in_queue"
      /\ 0 <= arg'.a /\ arg'.a < Len(bm.batch_queue)
      /\ 0 <= arg'.b /\ arg'.b < Len(bm.batch_queue) )
        => Pending(bm') = Pending(bm)

C29_MoveKeepsPending == [][C29_Step]_vars

\* C27: the retry signals of one execute_with_retry run. retry_attempt(a,
\* max_retries, last error) is emitted once for every retry a >= 1 that reached
\* its backoff sleep, before that sleep, in order, and never for attempt 0;
\* retry_success is emitted exactly when an attempt a >= 1 returned; retry_failed
\* exactly when attempt max_retries ended in a retryable error, and never for a
\* fatal error. Nothing else is emitted.
Emitted(name) == { i \in 1..Len(rh.events) : rh.events[i].name = name }

C27_RetryEvents ==
    LET ev == rh.events
        res == rh.results
        announced == Len(rh.slept) + (IF rh.pc = "sleep" THEN 1 ELSE 0)
        succeeded == { j \in 1..Len(res) : res[j] = NoErr /\ j - 1 >= 1 }
        exhausted == { j \in 1..Len(res) : /\ res[j] # NoErr
                                           /\ is_retryable_error(res[j])
                                           /\ j - 1 = rh.max_retries }
    IN /\ Emitted("retry_attempt") = 1..announced
       /\ \A a \in 1..announced :
            ev[a] = REv("retry_attempt", a, rh.max_retries, res[a])
       /\ rh.calls <= announced + 1
       /\ Cardinality(Emitted("retry_success")) = Cardinality(succeeded)
       /\ \A i \in Emitted("retry_success") :
            /\ i = Len(ev)
            /\ ev[i].a = Len(res) - 1 /\ Len(res) \in succeeded
       /\ Cardinality(Emitted("retry_failed")) = Cardinality(exhausted)
       /\ \A i \in Emitted("retry_failed") :
            /\ i = Len(ev)
            /\ ev[i].a = rh.max_retries /\ Len(res) \in exhausted
       /\ \A i \in 1..Len(ev) :
            ev[i].name \in {"retry_attempt", "retry_success", "retry_failed"}

\* A run that was retried twice and then succeeded
C27_Witness ==
    /\ rh.pc = "done" /\ rh.outcome = "returned"
    /\ Len(rh.results) = 3
    /\ Emitted("retry_attempt") = {1, 2}
    /\ Emitted("retry_success") = {3}

\* C30: the terminal signals of a DownloadThread run. finished is emitted exactly
\* once, as the last signal of the run; download_failed at most once, before
\* finished, and only by a run that ended in an error; a run that ended in an
\* error with the cancel flag clear emits it, a run that succeeded or that was
\* ended by the cancellation emits finished alone, so a failed job sends
\* download_failed and then finished.
SigAt(t, name) == { k \in 1..Len(t.sigs) : t.sigs[k] = name }

CancellationErrors == {ErrRetryCancelled, ErrDownloadCancelled}

IsPrefix(a, b) == Len(a) <= Len(b) /\ \A j \in 1..Len(a) : a[j] = b[j]

BatchDone ==
    /\ deq = enq
    /\ is_batch_complete(bm)
    /\ summaries >= 1

C28_BatchLiveness == [](IsPrefix(deq, enq)) /\ (dispatched ~> BatchDone)

\* The batch of two is done with one job failed and one succeeded
C28_Witness ==
    /\ BatchDone /\ Len(enq) = 2
    /\ \E i, j \in 1..Len(threads) :
         threads[i].outcome = "failed" /\ threads[j].outcome = "success"

====
